---- MODULE Spec2Model ----
(***************************************************************************)
(* Model of vision60_control/keyboard_command_node.py: the keyboard        *)
(* teleoperation node (KeyboardControlNode) and its main loop.             *)
(*                                                                         *)
(* Time is counted in ticks of 10 ms.  The model keeps no absolute clock:  *)
(* every stored time is kept as the time elapsed since it, which is the    *)
(* only way the code reads a time (current_time - key_last_seen[k], timer  *)
(* readiness).  Speeds and velocities are IEEE-754 doubles, kept exactly   *)
(* as a sign and an integer count of 2^-56 split in two limbs.             *)
(***************************************************************************)
EXTENDS Integers, Sequences, FiniteSets, TLC

(***************************************************************************)
(* Constants of the program, in ticks of 10 ms.                            *)
(***************************************************************************)
SleepTicks == 1
TimerPeriod == 5
StaleTicks == 15
ServiceWaitTicks == 100

(***************************************************************************)
(* Bounds of the model.                                                    *)
(***************************************************************************)
MaxPending == 2
MaxPresses == 4
\* the longest wait_for_service waits for a service that does come, in ticks
MaxServiceDelay == 3

(***************************************************************************)
(* Doubles.  [neg, hi, lo] is the double (-1)^neg * (hi * 2^28 + lo) *     *)
(* 2^-56.  Every double in [2^-3, 2) is such a number, and so are the      *)
(* exact sums and differences of two of them.                              *)
(***************************************************************************)
Limb == 16384 * 16384

Dbl(hi, lo) == [neg |-> FALSE, hi |-> hi, lo |-> lo]

Zero == Dbl(0, 0)
One == Dbl(Limb, 0)
\* the double nearest to 0.1 is 7205759403792794 * 2^-56
SpeedStep == Dbl(26843545, 161061274)
\* the double nearest to 0.2 is 14411518807585588 * 2^-56
default_speed == Dbl(53687091, 53687092)

DNeg(a) == [a EXCEPT !.neg = ~a.neg]

DIsZero(a) == a.hi = 0 /\ a.lo = 0

MagLess(a, b) == a.hi < b.hi \/ (a.hi = b.hi /\ a.lo < b.lo)

MagAdd(a, b) ==
  LET lo == a.lo + b.lo
  IN  [hi |-> a.hi + b.hi + (lo \div Limb), lo |-> lo % Limb]

\* a - b for magnitudes with b <= a
MagSub(a, b) ==
  LET lo == a.lo - b.lo
  IN  IF lo < 0 THEN [hi |-> a.hi - b.hi - 1, lo |-> lo + Limb]
                ELSE [hi |-> a.hi - b.hi, lo |-> lo]

\* spacing of the doubles around a magnitude, in units of 2^-56: a double
\* has 53 significant bits
Quantum(m) ==
  IF m.hi < Limb \div 8 THEN 1
  ELSE IF m.hi < Limb \div 4 THEN 2
  ELSE IF m.hi < Limb \div 2 THEN 4
  ELSE IF m.hi < Limb THEN 8
  ELSE 16

\* round to nearest, ties to even
RoundMag(m) ==
  LET q == Quantum(m)
      r == m.lo % q
      down == m.lo - r
      up == (2 * r > q) \/ (2 * r = q /\ (down \div q) % 2 = 1)
      lo == IF up THEN down + q ELSE down
  IN  [hi |-> m.hi + (lo \div Limb), lo |-> lo % Limb]

Signed(neg, m) == [neg |-> neg, hi |-> m.hi, lo |-> m.lo]

\* a + b in double arithmetic
DAdd(a, b) ==
  IF a.neg = b.neg THEN Signed(a.neg, RoundMag(MagAdd(a, b)))
  ELSE IF MagLess(a, b) THEN Signed(b.neg, RoundMag(MagSub(b, a)))
  ELSE IF MagLess(b, a) THEN Signed(a.neg, RoundMag(MagSub(a, b)))
  ELSE Zero

\* a < b on doubles (-0.0 and 0.0 are equal)
DLess(a, b) ==
  IF DIsZero(a) /\ DIsZero(b) THEN FALSE
  ELSE IF a.neg /\ ~b.neg THEN TRUE
  ELSE IF ~a.neg /\ b.neg THEN FALSE
  ELSE IF a.neg THEN MagLess(b, a)
  ELSE MagLess(a, b)

DLeq(a, b) == ~DLess(b, a)

\* Python's min(a, b) and max(a, b): the first argument wins a tie
DMin(a, b) == IF DLess(b, a) THEN b ELSE a
DMax(a, b) == IF DLess(a, b) THEN b ELSE a


(***************************************************************************)
(* Keys.                                                                   *)
(***************************************************************************)
MovementKeys == {"w", "a", "s", "d", "q", "e"}
SpeedKeys == {"[", "]"}
ModeKeys == {"m", "n", "z", "x", "c"}
CtrlC == "^C"
NoKey == ""

\* The characters one operator session types: the node is driven from one
\* of these keyboards, chosen when it starts ("k" is a key bound to nothing).
Keyboards ==
  { {"w", "s"}, {"d", "["}, {"[", "]"}, {"w", "m"}, {"m", "n"}, {"z", "x", "c"},
    {"h", "k", CtrlC}, {"w", "h", CtrlC} }

VARIABLES
  pc,             \* position of main
  term,           \* the terminal's settings
  old_settings,   \* main's old_settings
  node_alive,     \* the node exists (destroy_node has not run)
  rclpy_up,       \* rclpy.shutdown() has not run
  pressed_keys,   \* self.pressed_keys
  key_last_seen,  \* self.key_last_seen, as ticks elapsed since the stored time
  vx, vy, vyaw,   \* self.vx, self.vy, self.vyaw
  speed,          \* self.speed
  timer_due,      \* ticks elapsed since the timer's next call time (< 0: not ready)
  pending,        \* requests sent by call_async whose response has not resolved
  published,      \* the messages published by the last step
  logged,         \* the log lines written by the last step
  resolved,       \* the futures whose done callback ran in the last step
  keyboard,       \* the characters this session types
  last_key,       \* the character the last keyboard_loop_once read
  last_wait,      \* the ticks wait_for_service blocked in it
  speed_before,   \* self.speed when the last keyboard_loop_once began
  since_read,     \* per movement key, ticks since its character was last read
  presses         \* the speed keys read so far, in order

vars == <<pc, term, old_settings, node_alive, rclpy_up, pressed_keys,
          key_last_seen, vx, vy, vyaw, speed, timer_due, pending, published,
          logged, resolved, keyboard, last_key, last_wait, speed_before, since_read,
          presses>>

node_vars == <<pressed_keys, key_last_seen, vx, vy, vyaw, speed>>
ghost_vars == <<last_key, last_wait, speed_before, presses>>

\* what one step puts out
outs == <<published, logged, resolved>>

\* since_read stops counting here: all that is asked of it is whether it
\* exceeds StaleTicks, and whether it has only just done so
SinceCap == StaleTicks + 2
Untracked == <<"untracked">>

Log(level, tag) == [level |-> level, tag |-> tag]

(***************************************************************************)
(* The passage of dt ticks.                                                *)
(***************************************************************************)
Aged(last_seen, dt) == [k \in DOMAIN last_seen |-> last_seen[k] + dt]

SinceAged(since, dt) ==
  [k \in MovementKeys |-> IF since[k] + dt > SinceCap THEN SinceCap ELSE since[k] + dt]

(***************************************************************************)
(* KeyboardControlNode                                                     *)
(***************************************************************************)
\* timer_callback with linear.y filled from self.vx
timer_callback_y_from_vx(x, y, yaw) == [linear_x |-> x, linear_y |-> x, angular_z |-> yaw]

\* timer_callback: the message it publishes
timer_callback(x, y, yaw) == [linear_x |-> x, linear_y |-> y, angular_z |-> yaw]

\* The timer created by create_timer(0.05, ...): its next call time moves on
\* by one period when it is called and, if that is still in the past, on to
\* the first period boundary after now (the missed periods are not made up).
TimerCalled(due) ==
  LET d == due - TimerPeriod
  IN  IF d > 0 THEN d - (1 + ((d - 1) \div TimerPeriod)) * TimerPeriod ELSE d

\* how long the service may take to be there: at once, a little later, or
\* not within timeout_sec
ServiceWaits == {0, MaxServiceDelay, ServiceWaitTicks}

\* the request with "n" asking for the value of "m"
Request_n_as_m(key) ==
  CASE key \in {"m", "n"} -> [field |-> "control_mode", valdes |-> 140]
    [] key = "z" -> [field |-> "action", valdes |-> 0]
    [] key = "x" -> [field |-> "action", valdes |-> 1]
    [] key = "c" -> [field |-> "action", valdes |-> 2]

\* the request call_ensure_mode builds for a key
Request(key) ==
  CASE key = "m" -> [field |-> "control_mode", valdes |-> 140]
    [] key = "n" -> [field |-> "control_mode", valdes |-> 180]
    [] key = "z" -> [field |-> "action", valdes |-> 0]
    [] key = "x" -> [field |-> "action", valdes |-> 1]
    [] key = "c" -> [field |-> "action", valdes |-> 2]

\* call_ensure_mode without the return after the error line: the request is
\* sent although the service was not there
call_ensure_mode_no_return(key, wait) ==
  IF wait >= ServiceWaitTicks
    THEN [wait |-> ServiceWaitTicks, sent |-> <<Request(key)>>,
          log |-> <<Log("error", "ensure_mode unavailable")>>]
    ELSE [wait |-> wait, sent |-> <<Request(key)>>, log |-> <<>>]

\* call_ensure_mode, the service coming up after wait ticks:
\* wait_for_service blocks until then and returns True, or gives up after
\* timeout_sec and returns False.  wait: the ticks it blocked; sent: the
\* requests sent; log: the lines logged.
call_ensure_mode(key, wait) ==
  IF wait >= ServiceWaitTicks
    THEN [wait |-> ServiceWaitTicks, sent |-> <<>>,
          log |-> <<Log("error", "ensure_mode unavailable")>>]
    ELSE [wait |-> wait, sent |-> <<Request(key)>>, log |-> <<>>]

\* cb without the test of res.result
cb_result_unread(fut) ==
  IF fut.raised THEN Log("error", "SERVICE ERROR") ELSE Log("info", "SERVICE OK")

\* cb: the line the done callback logs for a resolved future
cb(fut) ==
  IF fut.raised THEN Log("error", "SERVICE ERROR")
  ELSE IF fut.result THEN Log("info", "SERVICE OK")
  ELSE Log("warn", "SERVICE FAIL")

Futures == { [raised |-> TRUE, result |-> FALSE],
             [raised |-> FALSE, result |-> TRUE],
             [raised |-> FALSE, result |-> FALSE] }

\* update_velocity_state with opposing keys cancelling
update_velocity_state_cancel(keys, sp) ==
  LET axis(pos, neg) == IF pos \in keys /\ neg \in keys THEN Zero
                        ELSE IF neg \in keys THEN DNeg(sp)
                        ELSE IF pos \in keys THEN sp ELSE Zero
  IN  <<axis("w", "s"), axis("a", "d"), axis("q", "e")>>

\* update_velocity_state without the reset vx = vy = vyaw = 0.0
update_velocity_state_carry(keys, sp) ==
  LET x0 == IF "w" \in keys THEN sp ELSE vx
      x == IF "s" \in keys THEN DNeg(sp) ELSE x0
      y0 == IF "a" \in keys THEN sp ELSE vy
      y == IF "d" \in keys THEN DNeg(sp) ELSE y0
      yaw0 == IF "q" \in keys THEN sp ELSE vyaw
      yaw == IF "e" \in keys THEN DNeg(sp) ELSE yaw0
  IN  <<x, y, yaw>>

\* update_velocity_state: <<vx, vy, vyaw>> for a held set and a speed
update_velocity_state(keys, sp) ==
  LET x0 == IF "w" \in keys THEN sp ELSE Zero
      x == IF "s" \in keys THEN DNeg(sp) ELSE x0
      y0 == IF "a" \in keys THEN sp ELSE Zero
      y == IF "d" \in keys THEN DNeg(sp) ELSE y0
      yaw0 == IF "q" \in keys THEN sp ELSE Zero
      yaw == IF "e" \in keys THEN DNeg(sp) ELSE yaw0
  IN  <<x, y, yaw>>

\* adjust_speed without max(0.0, ...)
adjust_speed_no_floor(sp, delta) == DMin(DAdd(sp, delta), One)

\* adjust_speed clamping the old speed instead of the new one
adjust_speed_clamp_old(sp, delta) == DAdd(DMax(Zero, DMin(sp, One)), delta)

\* adjust_speed: the new self.speed
adjust_speed(sp, delta) == DMax(Zero, DMin(DAdd(sp, delta), One))

\* the sweep removing a key at the threshold already (>= for >)
keys_to_remove_at_threshold(keys, elapsed) ==
  { k \in keys : IF k \in DOMAIN elapsed THEN elapsed[k] >= StaleTicks ELSE TRUE }

\* keyboard_loop_once, the sweep: the held keys to remove, elapsed[k] being
\* current_time - key_last_seen[k]
keys_to_remove(keys, elapsed) ==
  { k \in keys : IF k \in DOMAIN elapsed THEN elapsed[k] > StaleTicks ELSE TRUE }

\* key_last_seen[key] = current_time refreshing every held key
key_seen_all(last_seen, key) == [k \in DOMAIN last_seen \cup {key} |-> 0]

\* key_last_seen[key] = current_time
key_seen(last_seen, key) ==
  [k \in DOMAIN last_seen \cup {key} |-> IF k = key THEN 0 ELSE last_seen[k]]

\* the sweep without key_last_seen.pop(k, None)
popped_none(last_seen, gone) == last_seen

\* key_last_seen.pop(k, None) for the keys removed
popped(last_seen, gone) == [k \in DOMAIN last_seen \ gone |-> last_seen[k]]

\* the loop body with the poll before spin_once
after_poll_first(step) ==
  CASE step = "spin" -> "sleep" [] step = "kbd" -> "spin" [] step = "sleep" -> "kbd"

\* the loop body of main: the step that follows a step
after(step) ==
  CASE step = "spin" -> "kbd" [] step = "kbd" -> "sleep" [] step = "sleep" -> "spin"

Remove(seq, i) == [j \in 1..(Len(seq) - 1) |-> IF j < i THEN seq[j] ELSE seq[j + 1]]

\* restore_terminal leaving the terminal as it is
restore_terminal_skipped(settings) == term

\* restore_terminal: the settings tcsetattr leaves the terminal with
restore_terminal(settings) == settings

Init ==
  /\ pc = "set_raw"
  /\ term \in {"cooked", "cbreak"}
  /\ old_settings = "unset"
  /\ node_alive = TRUE
  /\ rclpy_up = TRUE
  /\ pressed_keys = {}
  /\ key_last_seen = << >>
  /\ vx = Zero /\ vy = Zero /\ vyaw = Zero
  /\ speed = default_speed
  /\ timer_due = -TimerPeriod
  /\ pending = <<>>
  /\ published = <<>>
  /\ logged = <<Log("info", "help"), Log("info", "initialized")>>
  /\ resolved = <<>>
  /\ keyboard \in Keyboards
  /\ last_key = NoKey
  /\ last_wait = 0
  /\ speed_before = default_speed
  /\ since_read = [k \in MovementKeys |-> SinceCap]
  /\ presses = <<>>

(***************************************************************************)
(* main                                                                    *)
(***************************************************************************)
\* old_settings = set_terminal_raw()
SetTerminalRaw ==
  /\ pc = "set_raw"
  /\ old_settings' = term
  /\ term' = "raw"
  /\ pc' = "spin"
  /\ published' = <<>> /\ logged' = <<>> /\ resolved' = <<>>
  /\ UNCHANGED <<node_alive, rclpy_up, node_vars, timer_due, pending, keyboard,
                 ghost_vars, since_read>>

\* while rclpy.ok(): false after an external shutdown
LoopExit ==
  /\ pc = "spin"
  /\ pc' = "finally"
  /\ published' = <<>> /\ logged' = <<>> /\ resolved' = <<>>
  /\ UNCHANGED <<term, old_settings, node_alive, rclpy_up, node_vars, timer_due,
                 pending, keyboard, ghost_vars, since_read>>

\* spin_once runs the timer callback
SpinTimer ==
  /\ pc = "spin"
  /\ timer_due >= 0
  /\ published' = <<timer_callback(vx, vy, vyaw)>>
  /\ logged' = <<>> /\ resolved' = <<>>
  /\ timer_due' = TimerCalled(timer_due)
  /\ pc' = after("spin")
  /\ UNCHANGED <<term, old_settings, node_alive, rclpy_up, node_vars, pending,
                 keyboard, ghost_vars, since_read>>

\* spin_once runs the done callback of a request whose response has come
\* (the executor serves a ready timer before a ready client)
SpinResponse ==
  /\ pc = "spin"
  /\ timer_due < 0
  /\ \E i \in 1..Len(pending), fut \in Futures :
       /\ logged' = <<cb(fut)>>
       /\ resolved' = <<fut>>
       /\ pending' = Remove(pending, i)
  /\ published' = <<>>
  /\ pc' = after("spin")
  /\ UNCHANGED <<term, old_settings, node_alive, rclpy_up, node_vars, timer_due,
                 keyboard, ghost_vars, since_read>>

\* spin_once finds nothing ready and returns at once
SpinIdle ==
  /\ pc = "spin"
  /\ timer_due < 0
  /\ published' = <<>> /\ logged' = <<>> /\ resolved' = <<>>
  /\ pc' = after("spin")
  /\ UNCHANGED <<term, old_settings, node_alive, rclpy_up, node_vars, timer_due,
                 pending, keyboard, ghost_vars, since_read>>

\* spin_once raises (a callback or the executor fails)
SpinRaises ==
  /\ pc = "spin"
  /\ pc' = "finally"
  /\ published' = <<>> /\ logged' = <<>> /\ resolved' = <<>>
  /\ UNCHANGED <<term, old_settings, node_alive, rclpy_up, node_vars, timer_due,
                 pending, keyboard, ghost_vars, since_read>>

\* keyboard_loop_once reads key (NoKey: nothing to read); wait is how long
\* the service takes to be there when the key calls it (0 when the key calls
\* none)
KeyboardLoopOnce(key, wait) ==
  /\ pc = "kbd"
  /\ key \notin ModeKeys => wait = 0
  /\ key \in ModeKeys /\ wait < ServiceWaitTicks => Len(pending) < MaxPending
  /\ last_key' = key
  /\ last_wait' = wait
  /\ speed_before' = speed
  /\ IF key = CtrlC
       THEN /\ pc' = "except"
            /\ published' = <<>> /\ logged' = <<>> /\ resolved' = <<>>
            /\ UNCHANGED <<node_vars, timer_due, pending, since_read, presses>>
       ELSE LET moved == key \in MovementKeys
                keys1 == IF moved THEN pressed_keys \cup {key} ELSE pressed_keys
                seen1 == IF moved THEN key_seen(key_last_seen, key) ELSE key_last_seen
                speed1 == IF key = "[" THEN adjust_speed(speed, DNeg(SpeedStep))
                          ELSE IF key = "]" THEN adjust_speed(speed, SpeedStep)
                          ELSE speed
                call == IF key \in ModeKeys THEN call_ensure_mode(key, wait)
                        ELSE [wait |-> 0, sent |-> <<>>, log |-> <<>>]
                gone == keys_to_remove(keys1, seen1)
                keys2 == keys1 \ gone
                seen2 == popped(seen1, gone)
                vel == update_velocity_state(keys2, speed1)
                read1 == IF moved THEN [since_read EXCEPT ![key] = 0] ELSE since_read
            IN  /\ pressed_keys' = keys2
                /\ key_last_seen' = Aged(seen2, call.wait)
                /\ speed' = speed1
                /\ vx' = vel[1] /\ vy' = vel[2] /\ vyaw' = vel[3]
                /\ pending' = pending \o call.sent
                /\ timer_due' = timer_due + call.wait
                /\ since_read' = SinceAged(read1, call.wait)
                /\ logged' = IF key \in SpeedKeys THEN <<Log("info", "SPEED")>>
                             ELSE IF key = "h" THEN <<Log("info", "help")>>
                             ELSE call.log
                /\ presses' = IF key \notin SpeedKeys \/ presses = Untracked THEN presses
                              ELSE IF Len(presses) < MaxPresses THEN Append(presses, key)
                              ELSE Untracked
                /\ published' = <<>> /\ resolved' = <<>>
                /\ pc' = after("kbd")
  /\ UNCHANGED <<term, old_settings, node_alive, rclpy_up, keyboard>>

\* get_key_nonblocking raises (reading the terminal fails)
PollRaises ==
  /\ pc = "kbd"
  /\ pc' = "finally"
  /\ published' = <<>> /\ logged' = <<>> /\ resolved' = <<>>
  /\ UNCHANGED <<term, old_settings, node_alive, rclpy_up, node_vars, timer_due,
                 pending, keyboard, ghost_vars, since_read>>

\* time.sleep(0.01)
Sleep ==
  /\ pc = "sleep"
  /\ key_last_seen' = Aged(key_last_seen, SleepTicks)
  /\ timer_due' = timer_due + SleepTicks
  /\ since_read' = SinceAged(since_read, SleepTicks)
  /\ published' = <<>> /\ logged' = <<>> /\ resolved' = <<>>
  /\ pc' = after("sleep")
  /\ UNCHANGED <<term, old_settings, node_alive, rclpy_up, pressed_keys, vx, vy,
                 vyaw, speed, pending, keyboard, ghost_vars>>

\* except KeyboardInterrupt
ExceptKeyboardInterrupt ==
  /\ pc = "except"
  /\ logged' = <<Log("info", "KeyboardInterrupt")>>
  /\ published' = <<>> /\ resolved' = <<>>
  /\ pc' = "finally"
  /\ UNCHANGED <<term, old_settings, node_alive, rclpy_up, node_vars, timer_due,
                 pending, keyboard, ghost_vars, since_read>>

\* finally: restore_terminal(old_settings)
FinallyRestore ==
  /\ pc = "finally"
  /\ term' = restore_terminal(old_settings)
  /\ pc' = "destroy"
  /\ published' = <<>> /\ logged' = <<>> /\ resolved' = <<>>
  /\ UNCHANGED <<old_settings, node_alive, rclpy_up, node_vars, timer_due,
                 pending, keyboard, ghost_vars, since_read>>

\* finally: node.destroy_node(); failed: it raises and main ends there
FinallyDestroy(failed) ==
  /\ pc = "destroy"
  /\ node_alive' = failed
  /\ pc' = IF failed THEN "exited" ELSE "shutdown"
  /\ published' = <<>> /\ logged' = <<>> /\ resolved' = <<>>
  /\ UNCHANGED <<term, old_settings, rclpy_up, node_vars, timer_due, pending,
                 keyboard, ghost_vars, since_read>>

\* finally: rclpy.shutdown(); failed: it raises
FinallyShutdown(failed) ==
  /\ pc = "shutdown"
  /\ rclpy_up' = failed
  /\ pc' = "exited"
  /\ published' = <<>> /\ logged' = <<>> /\ resolved' = <<>>
  /\ UNCHANGED <<term, old_settings, node_alive, node_vars, timer_due, pending,
                 keyboard, ghost_vars, since_read>>

Next ==
  \/ SetTerminalRaw
  \/ LoopExit
  \/ SpinTimer
  \/ SpinResponse
  \/ SpinIdle
  \/ SpinRaises
  \/ \E key \in keyboard \cup {NoKey}, wait \in ServiceWaits : KeyboardLoopOnce(key, wait)
  \/ PollRaises
  \/ Sleep
  \/ ExceptKeyboardInterrupt
  \/ FinallyRestore
  \/ \E failed \in BOOLEAN : FinallyDestroy(failed)
  \/ \E failed \in BOOLEAN : FinallyShutdown(failed)

Spec == Init /\ [][Next]_vars


(***************************************************************************)
(* The node in the middle of a session, with any set of movement keys      *)
(* held: the keys were read in successive iterations, "w" last.            *)
(***************************************************************************)
Rank(k) ==
  CASE k = "w" -> 1 [] k = "a" -> 2 [] k = "s" -> 3
    [] k = "d" -> 4 [] k = "q" -> 5 [] k = "e" -> 6

\* 0.0, 0.2 and 1.0
HeldSpeeds == {Zero, default_speed, One}

HeldInit ==
  /\ pc = "spin"
  /\ term = "raw"
  /\ old_settings = "cooked"
  /\ node_alive = TRUE
  /\ rclpy_up = TRUE
  /\ pressed_keys \in SUBSET MovementKeys
  /\ key_last_seen = [k \in pressed_keys |-> Rank(k)]
  /\ speed \in HeldSpeeds
  /\ vx = update_velocity_state(pressed_keys, speed)[1]
  /\ vy = update_velocity_state(pressed_keys, speed)[2]
  /\ vyaw = update_velocity_state(pressed_keys, speed)[3]
  /\ timer_due = -1
  /\ pending = <<>>
  /\ published = <<>> /\ logged = <<>> /\ resolved = <<>>
  /\ keyboard = {"]"}
  /\ last_key = NoKey
  /\ last_wait = 0
  /\ speed_before = speed
  /\ since_read = [k \in MovementKeys |-> IF k \in pressed_keys THEN Rank(k) ELSE SinceCap]
  /\ presses = Untracked

HeldNext ==
  \/ SpinTimer
  \/ SpinIdle
  \/ \E key \in keyboard \cup {NoKey} : KeyboardLoopOnce(key, 0)
  \/ Sleep

SpecHeld == HeldInit /\ [][HeldNext]_vars

(***************************************************************************)
(* Properties.                                                             *)
(***************************************************************************)
InLoop == pc \in {"spin", "kbd", "sleep"}

\* the step is a keyboard_loop_once that read a character and returned
ReadStep(keys) == pc = "kbd" /\ pc' = "sleep" /\ last_key' \in keys

\* wait_for_service timed out in the last keyboard_loop_once
Unavailable == last_wait >= ServiceWaitTicks

\* C1: while the main loop runs, no timer period passes without a publish:
\* the timer is never a whole period past its call time and still not served.
C1_PublishedEveryPeriod == InLoop => timer_due < TimerPeriod

\* C2: after every keyboard_loop_once, a movement key none of whose characters
\* was read for more than 150 ms is not in the held set.
C2_StaleKeyRemoved ==
  pc = "sleep" =>
    \A k \in MovementKeys : since_read[k] > StaleTicks => k \notin pressed_keys

\* C3: the terminal is in raw mode while the loop runs; once main is past
\* restore_terminal the terminal has the settings set_terminal_raw saved, and
\* neither destroy_node nor shutdown has run, or failed, with it still raw.
C3_TerminalRestored ==
  /\ InLoop \/ pc \in {"except", "finally"} =>
       term = "raw" /\ old_settings \in {"cooked", "cbreak"} /\ node_alive /\ rclpy_up
  /\ pc \in {"destroy", "shutdown", "exited"} =>
       term = old_settings /\ old_settings \in {"cooked", "cbreak"}
  /\ ~node_alive \/ ~rclpy_up => term = old_settings

C3_Witness ==
  pc = "exited" /\ last_key = CtrlC /\ term = "cbreak" /\ ~node_alive

\* C4: a mode or action key read with the service unavailable sends nothing
\* and registers no callback (no request becomes outstanding), logs exactly
\* one error, and leaves speed and, the held set being the same, the velocity
\* vector as they were; a request is only ever sent with the service available.
C4_UnavailableSkipped ==
  [][ /\ ReadStep(ModeKeys) /\ Unavailable' =>
           /\ pending' = pending
           /\ logged' = <<Log("error", "ensure_mode unavailable")>>
           /\ resolved' = <<>>
           /\ speed' = speed
           /\ pressed_keys' = pressed_keys => <<vx, vy, vyaw>>' = <<vx, vy, vyaw>>
      /\ Len(pending') > Len(pending) => ReadStep(ModeKeys) /\ ~Unavailable' ]_vars

C4_Witness ==
  /\ pc = "sleep" /\ last_key = "m" /\ Unavailable
  /\ logged = <<Log("error", "ensure_mode unavailable")>>
  /\ pending = <<>> /\ pressed_keys = {"w"} /\ vx = default_speed

\* the value of an axis for the held set and speed of the current state
AxisNow(pos, neg) ==
  IF neg \in pressed_keys THEN DNeg(speed)
  ELSE IF pos \in pressed_keys THEN speed
  ELSE Zero

\* C5: a step publishes at most one message, and a published message carries
\* the velocity of the held set and speed of that moment: (speed, 0, 0) when
\* the held set is {w}, (0.2, 0, 0) at the initial speed.
C5_PublishedIsCurrent ==
  /\ Len(published) <= 1
  /\ published # <<>> =>
       /\ published[1].linear_x = AxisNow("w", "s")
       /\ published[1].linear_y = AxisNow("a", "d")
       /\ published[1].angular_z = AxisNow("q", "e")
       /\ pressed_keys = {"w"} =>
            published[1] = [linear_x |-> speed, linear_y |-> Zero, angular_z |-> Zero]
       /\ pressed_keys = {"w"} /\ presses = <<>> =>
            published[1].linear_x = Dbl(53687091, 53687092)

C5_Witness ==
  /\ published # <<>> /\ pressed_keys = {"w"} /\ presses = <<>>
  /\ published[1].linear_x = default_speed

\* C6: 0.0 <= speed <= 1.0 always; a `[` press does not increase speed and a
\* `]` press does not decrease it; at a bound a further press towards it
\* leaves speed as it is.
C6_SpeedBounded ==
  /\ ~speed.neg /\ DLeq(Zero, speed) /\ DLeq(speed, One)
  /\ last_key = "[" => DLeq(speed, speed_before) /\ (speed_before = Zero => speed = Zero)
  /\ last_key = "]" => DLeq(speed_before, speed) /\ (speed_before = One => speed = One)

C6_Witness == last_key = "]" /\ speed_before = One /\ speed = One

\* C7: with both keys of an axis held the axis is minus the speed (the key
\* checked later wins), never their cancellation.
C7_OpposingKeys ==
  /\ {"w", "s"} \subseteq pressed_keys => vx = DNeg(speed)
  /\ {"a", "d"} \subseteq pressed_keys => vy = DNeg(speed)
  /\ {"q", "e"} \subseteq pressed_keys => vyaw = DNeg(speed)

C7_Witness ==
  /\ pc = "sleep" /\ MovementKeys \subseteq pressed_keys
  /\ speed = One /\ vx = DNeg(One) /\ vy = DNeg(One) /\ vyaw = DNeg(One)

\* the velocity vector as a function of a held set and a speed alone
VelocityOf(keys, sp) ==
  LET axis(pos, neg) == IF neg \in keys THEN DNeg(sp)
                        ELSE IF pos \in keys THEN sp ELSE Zero
  IN  <<axis("w", "s"), axis("a", "d"), axis("q", "e")>>

\* C8: the velocity vector is one fixed function of the held set and the
\* speed, whatever keys were read before: nothing of an earlier tick is left
\* in it.
C8_VelocityStateless == <<vx, vy, vyaw>> = VelocityOf(pressed_keys, speed)

\* "s" was held with "w" and has just been swept: "w" alone is held
C8_Witness ==
  /\ pc = "sleep" /\ pressed_keys = {"w"}
  /\ since_read["s"] = StaleTicks + 1 /\ vx = speed /\ speed # Zero

\* C9: a mode or action key read with the service available sends exactly
\* one request and returns with it outstanding (no time passes but what the
\* service took to be there); polling and
\* publishing stay possible while a request is outstanding; a response
\* resolves one request, logging one line for it: info if the result flag is
\* set, warn if it is not, error if resolving raised.
C9_AsyncRequest ==
  /\ [][ /\ ReadStep(ModeKeys) /\ ~Unavailable' =>
              /\ pending' = Append(pending, Request(last_key'))
              /\ logged' = <<>> /\ resolved' = <<>>
              /\ timer_due' = timer_due + last_wait'
         /\ pending' # pending /\ ~ReadStep(ModeKeys) =>
              /\ Len(pending') = Len(pending) - 1
              /\ Len(resolved') = 1 /\ Len(logged') = 1
              /\ logged'[1].level = (IF resolved'[1].raised THEN "error"
                                     ELSE IF resolved'[1].result THEN "info"
                                     ELSE "warn")
         /\ resolved' # <<>> => pending' # pending ]_vars
  /\ [](pending # <<>> /\ pc = "kbd" => ENABLED KeyboardLoopOnce(NoKey, 0))
  /\ [](pending # <<>> /\ pc = "spin" /\ timer_due >= 0 => ENABLED SpinTimer)

C9_Witness ==
  /\ resolved = <<[raised |-> FALSE, result |-> FALSE]>>
  /\ logged = <<Log("warn", "SERVICE FAIL")>>
  /\ pending = <<>> /\ last_key = "m"

\* the speed after a sequence of speed keys: 0.2, then one step of 0.1 per
\* key, clamped to [0.0, 1.0] after each
RECURSIVE SpeedAfter(_)
SpeedAfter(keys) ==
  IF keys = <<>> THEN Dbl(53687091, 53687092)
  ELSE LET before == SpeedAfter(SubSeq(keys, 1, Len(keys) - 1))
           stepped == DAdd(before, IF keys[Len(keys)] = "]" THEN SpeedStep
                                   ELSE DNeg(SpeedStep))
       IN  IF DLess(stepped, Zero) THEN Zero
           ELSE IF DLess(One, stepped) THEN One
           ELSE stepped

\* C10: from 0.2, the speed after a sequence of `[` and `]` is the sequence
\* folded with a step of 0.1 clamped at each press; three `]` give 0.5 and a
\* fourth 0.6.
C10_SpeedFold ==
  presses # Untracked =>
    /\ speed = SpeedAfter(presses)
    /\ presses = <<"]", "]", "]">> => speed = Dbl(Limb \div 2, 0)
    /\ presses = <<"]", "]", "]", "]">> => speed = Dbl(161061273, 161061272)

C10_Witness ==
  presses = <<"]", "]", "]", "]">> /\ speed = Dbl(161061273, 161061272)

\* the last request outstanding
Newest == pending[Len(pending)]

\* C11: each mode or action key sends the request bound to it and no other:
\* m (control_mode, 140), n (control_mode, 180), z, x, c (action, 0), (action,
\* 1), (action, 2); one key read makes at most one call, and a movement,
\* speed, help or unbound key, or no key, makes none (nothing is sent, no
\* error is logged, no time is spent waiting for the service).
C11_KeyRequests ==
  [][ /\ ReadStep(ModeKeys) /\ ~Unavailable' =>
           /\ Len(pending') = Len(pending) + 1
           /\ SubSeq(pending', 1, Len(pending)) = pending
           /\ last_key' = "m" => Newest' = [field |-> "control_mode", valdes |-> 140]
           /\ last_key' = "n" => Newest' = [field |-> "control_mode", valdes |-> 180]
           /\ last_key' = "z" => Newest' = [field |-> "action", valdes |-> 0]
           /\ last_key' = "x" => Newest' = [field |-> "action", valdes |-> 1]
           /\ last_key' = "c" => Newest' = [field |-> "action", valdes |-> 2]
      /\ ReadStep(ModeKeys) => Len(logged') <= 1
      /\ pc = "kbd" /\ last_key' \notin ModeKeys =>
           /\ pending' = pending
           /\ timer_due' = timer_due
           /\ \A i \in 1..Len(logged') : logged'[i].level # "error" ]_vars

C11_Witness ==
  /\ pc = "sleep" /\ last_key = "n"
  /\ pending = <<[field |-> "control_mode", valdes |-> 140],
                 [field |-> "control_mode", valdes |-> 180]>>

\* C12: a movement key just read is held with its time refreshed; after every
\* keyboard_loop_once no held key is older than 150 ms (plus what the call of
\* the service took), whether or not a character was read; and a movement
\* key read within the last 150 ms is held: a key whose reads are at most
\* 150 ms apart never leaves the held set, an age of exactly 150 ms being kept.
C12_HeldWhileRepeated ==
  /\ \A k \in MovementKeys : since_read[k] <= StaleTicks => k \in pressed_keys
  /\ pc = "sleep" =>
       /\ \A k \in pressed_keys : key_last_seen[k] <= StaleTicks + last_wait
       /\ last_key \in MovementKeys =>
            last_key \in pressed_keys /\ key_last_seen[last_key] = 0

\* "w" was read exactly 150 ms before a sweep with no character read, and stays
C12_Witness ==
  /\ pc = "sleep" /\ last_key = NoKey
  /\ "w" \in pressed_keys /\ key_last_seen["w"] = StaleTicks
  /\ since_read["w"] = StaleTicks

\* a timer or done callback ran in the last step
CallbackRan == published # <<>> \/ resolved # <<>>

\* C13: an iteration of the loop is spin_once, then the poll, then the sleep,
\* in this order; the poll takes the effect of at most one character; timer
\* and done callbacks run in spin_once alone, change nothing of the node, and
\* find the velocity that of the held set and speed, and a time for every
\* held key, as a whole keyboard_loop_once left them.
C13_LoopOrder ==
  [][ /\ pc = "spin" /\ InLoop' => pc' = "kbd"
      /\ pc = "kbd" /\ InLoop' => pc' = "sleep"
      /\ pc = "sleep" => pc' = "spin"
      /\ pc = "kbd" =>
           /\ Cardinality(pressed_keys' \ pressed_keys) <= 1
           /\ Len(pending') <= Len(pending) + 1
           /\ ~(pressed_keys' \ pressed_keys # {} /\ speed' # speed)
           /\ ~(pressed_keys' \ pressed_keys # {} /\ pending' # pending)
           /\ ~(speed' # speed /\ pending' # pending)
      /\ CallbackRan' =>
           /\ pc = "spin" /\ pc' = "kbd"
           /\ UNCHANGED node_vars
           /\ <<vx, vy, vyaw>> = VelocityOf(pressed_keys, speed)
           /\ DOMAIN key_last_seen = pressed_keys ]_vars

\* a done callback ran between two polls, with "w" held
C13_Witness ==
  /\ pc = "kbd" /\ resolved # <<>>
  /\ pressed_keys = {"w"} /\ vx = speed /\ last_key = "w"

\* C14: a key that is no movement key, or no key, adds nothing to the held set
\* and refreshes no time (every time kept ages by what the step took); a
\* movement key leaves speed and the times of the other keys as they were and
\* calls no service; speed changes on `[` and `]` alone.
C14_KeyFrames ==
  [][ /\ pc = "kbd" /\ pc' = "sleep" /\ last_key' \notin MovementKeys =>
           /\ pressed_keys' \subseteq pressed_keys
           /\ DOMAIN key_last_seen' \subseteq DOMAIN key_last_seen
           /\ \A k \in DOMAIN key_last_seen' :
                key_last_seen'[k] = key_last_seen[k] + (timer_due' - timer_due)
      /\ ReadStep(MovementKeys) =>
           /\ speed' = speed
           /\ pending' = pending
           /\ pressed_keys' \subseteq pressed_keys \cup {last_key'}
           /\ \A k \in DOMAIN key_last_seen' \ {last_key'} :
                k \in DOMAIN key_last_seen /\ key_last_seen'[k] = key_last_seen[k]
      /\ speed' # speed => ReadStep(SpeedKeys) ]_vars

\* "h" was read with "w" held
C14_Witness ==
  /\ pc = "sleep" /\ last_key = "h"
  /\ pressed_keys = {"w"} /\ key_last_seen["w"] > 0 /\ speed = default_speed

(***************************************************************************)
(* The main loop under the scheduling of a running process: a step of main *)
(* that can be taken is taken.                                             *)
(***************************************************************************)
SpecLive == Spec /\ WF_vars(Next)

ZeroTwist == [linear_x |-> Zero, linear_y |-> Zero, angular_z |-> Zero]

\* C15: if from some point on no movement key is read and the loop goes on
\* for ever, then from some point on the held set is empty and every message
\* published is (0, 0, 0), whatever other keys are read.
C15_DeadManStop ==
  <>[](InLoop /\ last_key \notin MovementKeys) =>
    <>[](pressed_keys = {} /\ (published # <<>> => published = <<ZeroTwist>>))

\* "w" was held and no longer read, and is swept in a poll that read "m":
\* the velocity is zero from here on
C15_Witness ==
  /\ pc = "sleep" /\ pressed_keys = {} /\ <<vx, vy, vyaw>> = <<Zero, Zero, Zero>>
  /\ last_key = "m" /\ since_read["w"] = StaleTicks + 1

\* C16: the held set holds movement keys only and is exactly the set of keys
\* with a last-seen entry: no timestamp outlives its key, no held key is
\* without one. Both change only in keyboard_loop_once, so this is stated of
\* every state, the one after each completed keyboard_loop_once included.
C16_HeldHasTimestamp ==
  /\ pressed_keys \subseteq {"w", "a", "s", "d", "q", "e"}
  /\ DOMAIN key_last_seen = pressed_keys

\* a keyboard_loop_once has just swept "w" while "s" stays held: the entry of
\* "w" is gone with the key, that of "s" is kept
C16_Witness ==
  /\ pc = "sleep" /\ since_read["w"] = StaleTicks + 1
  /\ pressed_keys = {"s"} /\ DOMAIN key_last_seen = {"s"}

====
